---- MODULE Spec2Model ----
(***************************************************************************)
(* A model of scripts/finam-download.py: the command `main`, which for     *)
(* each requested contract looks the contract up, plans the start date     *)
(* (append mode resumes from the last locally stored row), downloads the   *)
(* series, merges it with the local file and writes the result.            *)
(*                                                                         *)
(* One invocation of `main` is one "run"; the local directory `files`      *)
(* outlives the runs.  The remote lookup and export services and the       *)
(* pandas calls are the environment of the script.                         *)
(***************************************************************************)
EXTENDS Integers, Sequences, FiniteSets, TLC

----------------------------------------------------------------------------
(* Bounds of the model *)

\* invocations of the script in one behaviour
MaxRuns == 2
\* size of what an invocation starts from: two for each contract it asks
\* for, plus the rows of the local files, plus the rows the remote holds
MaxSize == 6
\* the same size for invocations with options of any kind (OtherArgs)
MaxSizeAny == 4

NULL == "None"

----------------------------------------------------------------------------
(* Bounded sequences *)

SeqsUpTo(S, n) == UNION {[1..k -> S] : k \in 0..n}

Range(s) == {s[k] : k \in 1..Len(s)}

----------------------------------------------------------------------------
(* Dates.  A row's <DATE> field is the integer YYYYMMDD the provider sends; *)
(* --startdate/--enddate and the planned start date are datetimes, here     *)
(* <<year, month, day>>.                                                    *)

Days == {1, 2}

FirstDay == CHOOSE d \in Days : \A e \in Days : d <= e

LastDay == CHOOSE d \in Days : \A e \in Days : e <= d

DateValue(d) == 20200100 + d

Datetime(d) == <<2020, 1, d>>

\* `.astype(str)` of an integer: its decimal digits
RECURSIVE AsStr(_)
AsStr(n) == IF n < 10 THEN <<n>> ELSE Append(AsStr(n \div 10), n % 10)

RECURSIVE ToInt(_)
ToInt(s) == IF s = <<>> THEN 0 ELSE 10 * ToInt(SubSeq(s, 1, Len(s) - 1)) + s[Len(s)]

\* datetime.datetime.strptime(s, '%Y%m%d') of an 8-digit string
Strptime(s) == <<ToInt(SubSeq(s, 1, 4)), ToInt(SubSeq(s, 5, 6)), ToInt(SubSeq(s, 7, 8))>>

\* order of datetimes
DateLE(a, b) ==
    \/ a[1] < b[1]
    \/ a[1] = b[1] /\ a[2] < b[2]
    \/ a[1] = b[1] /\ a[2] = b[2] /\ a[3] <= b[3]

----------------------------------------------------------------------------
(* Datasets: a DataFrame is the sequence of its rows *)

Values == {0, 1}

Rows == [DATE : {DateValue(d) : d \in Days}, CLOSE : Values]

\* pd.DataFrame()
EmptyFrame == <<>>

\* a mutant of LastRow: the first row is taken
LastRow_First(df) == df[1]

\* df.iloc[-1]
LastRow(df) == df[Len(df)]

\* pd.concat([a, b])
Concat(a, b) == a \o b

\* a mutant of DropDuplicates: the rows are kept as they are
DropDuplicates_Keep(df) == df

\* a mutant of DropDuplicates: duplicates are decided on the <DATE> field alone
DropDuplicates_ByDate(df) ==
    LET keep(k) == \A j \in 1..(k - 1) : df[j].DATE # df[k].DATE
        F[k \in 0..Len(df)] ==
            IF k = 0 THEN <<>>
            ELSE IF keep(k) THEN Append(F[k - 1], df[k]) ELSE F[k - 1]
    IN  F[Len(df)]

\* a mutant of DropDuplicates: the last occurrence of a row is kept
DropDuplicates_Last(df) ==
    LET keep(k) == \A j \in (k + 1)..Len(df) : df[j] # df[k]
        F[k \in 0..Len(df)] ==
            IF k = 0 THEN <<>>
            ELSE IF keep(k) THEN Append(F[k - 1], df[k]) ELSE F[k - 1]
    IN  F[Len(df)]

\* DataFrame.drop_duplicates(): a row equal in every column to an earlier
\* row is dropped, the first occurrence stays where it is
DropDuplicates(df) ==
    LET keep(k) == \A j \in 1..(k - 1) : df[j] # df[k]
        F[k \in 0..Len(df)] ==
            IF k = 0 THEN <<>>
            ELSE IF keep(k) THEN Append(F[k - 1], df[k]) ELSE F[k - 1]
    IN  F[Len(df)]

----------------------------------------------------------------------------
(* The remote services *)

Market == "SHARES"

\* the instruments the lookup service knows
Instruments ==
    << [id |-> 101, code |-> "AAA", market |-> Market],
       [id |-> 102, code |-> "BBB", market |-> Market] >>

KnownCodes == {Instruments[k].code : k \in 1..Len(Instruments)}

Ids == {Instruments[k].id : k \in 1..Len(Instruments)}

\* a code the lookup service does not know
UnknownCode == "ZZZ"

\* exporter.lookup(code=..., market=...): the matching records in the
\* service's order; an empty answer is FinamObjectNotFoundError
Lookup(code, market) ==
    SelectSeq(Instruments,
              LAMBDA r : /\ (code = NULL \/ r.code = code)
                         /\ (market = NULL \/ r.market = market))

----------------------------------------------------------------------------
(* Command line *)

FileFormats == {"CSV", "CSVGZ", "PKL", "PKLXZ"}

Timeframe == "DAILY"

Destdir == "/data"

\* a mutant of Family: only the plain CSV is of the CSV family
Family_PlainCsv(fileformat) == IF fileformat = "CSV" THEN "CSV" ELSE "PKL"

\* first three characters of the format name: fileformat[:3]
Family(fileformat) == IF fileformat \in {"CSV", "CSVGZ"} THEN "CSV" ELSE "PKL"

\* append_flag = append is not None and append == 'y'
AppendFlag(a) == a.append # NULL /\ a.append = "y"

\* a mutant of Truthy: only 'y' counts as set
Truthy_OnlyYes(v) == v = "y"

\* truth value of a string option: None and the empty string are false
Truthy(v) == v # NULL /\ v # ""

\* a mutant of TruthyList: every list counts as given
TruthyList_Always(l) == TRUE

\* truth value of the --contracts option: a list, <<>> when the option is
\* not given (None)
TruthyList(l) == l # <<>>

----------------------------------------------------------------------------
(* Format policy: destination path and compression *)

\* a mutant of Target: the compressed pickle shares the plain pickle's path
Target_SamePkl(code, timeframe, fileformat, ext) ==
    LET base == Destdir \o "/" \o code \o "-" \o timeframe
    IN  CASE fileformat = "CSV"   -> [path |-> base \o "." \o ext, compression |-> NULL]
          [] fileformat = "CSVGZ" -> [path |-> base \o ".csv.gz", compression |-> "gzip"]
          [] fileformat = "PKL"   -> [path |-> base \o ".pkl", compression |-> NULL]
          [] fileformat = "PKLXZ" -> [path |-> base \o ".pkl", compression |-> "xz"]

\* os.path.join(destdir, f'{contract.code}-{timeframe}') plus the suffix of
\* the format, and the compression that goes with it
Target(code, timeframe, fileformat, ext) ==
    LET base == Destdir \o "/" \o code \o "-" \o timeframe
    IN  CASE fileformat = "CSV"   -> [path |-> base \o "." \o ext, compression |-> NULL]
          [] fileformat = "CSVGZ" -> [path |-> base \o ".csv.gz", compression |-> "gzip"]
          [] fileformat = "PKL"   -> [path |-> base \o ".pkl", compression |-> NULL]
          [] fileformat = "PKLXZ" -> [path |-> base \o ".pkl.xz", compression |-> "xz"]

----------------------------------------------------------------------------
(* Local files *)

\* what DataFrame.to_pickle leaves at a path
Pickle(rows, compression) ==
    [kind |-> "pickle", compression |-> compression, rows |-> rows]

\* what DataFrame.to_csv leaves at a path
Csv(rows, lineterm, compression) ==
    [kind |-> "csv", compression |-> compression, lineterm |-> lineterm, rows |-> rows]

\* a file whose write stopped part-way: opened for writing, not completed
Truncated == [kind |-> "truncated"]

----------------------------------------------------------------------------
(* State *)

VARIABLES
    args,        \* the options of the command line (never assigned)
    run,         \* number of the current invocation
    pc,          \* position of the invocation in main
    status,      \* how the invocation ended, "running" until then
    contracts,   \* the list the for loop iterates over
    i,           \* position of the loop in contracts
    contract,    \* the record the lookup resolved
    destpath,    \* path of the current contract's file
    compression, \* compression of the current contract's file
    startdate,   \* local startdate: the option, reassigned in append mode
    df_local,    \* local df_local
    data,        \* local data
    files,       \* the destination directory: path -> content
    atStart,     \* the destination directory when the invocation started
    remote,      \* the export service's series, by instrument id
    failing,     \* the instrument ids whose export fails
    written,     \* the paths the invocations so far have written to
    log          \* the calls the invocation made, in order

vars == <<args, run, pc, status, contracts, i, contract, destpath, compression,
          startdate, df_local, data, files, atStart, remote, failing, written,
          log>>

env == <<atStart, remote, failing>>

\* exporter.download(id, start_date, end_date, ...): the rows of the
\* instrument's series whose date lies in [start_date, end_date]
Export(id, start_date, end_date) ==
    SelectSeq(remote[id],
              LAMBDA r : /\ DateLE(start_date, Strptime(AsStr(r.DATE)))
                         /\ DateLE(Strptime(AsStr(r.DATE)), end_date))

\* os.path.exists(path)
Exists(path) == path \in DOMAIN files

\* the directory after a write of content to path
Written(path, content) ==
    [p \in DOMAIN files \cup {path} |-> IF p = path THEN content ELSE files[p]]

----------------------------------------------------------------------------
(* The calls an invocation makes, as the entries of log *)

LookupCall(code, market, found) ==
    [op |-> "lookup", code |-> code, market |-> market, found |-> found]

ExistsCall(path, found) == [op |-> "exists", path |-> path, found |-> found]

ReadCall(path) == [op |-> "read_pickle", path |-> path]

DownloadCall(id, start_date, end_date, ok, got) ==
    [op |-> "download", id |-> id, start_date |-> start_date,
     end_date |-> end_date, ok |-> ok, got |-> got]

WriteCall(path, rows) == [op |-> "write", path |-> path, rows |-> rows]

SleepCall(seconds) == [op |-> "sleep", seconds |-> seconds]

----------------------------------------------------------------------------
(* main *)

\* the invocation ends: pc = "done" and status says how
Ends(how) ==
    /\ pc' = "done"
    /\ status' = how

\* a mutant of NextContract: the loop passes over every other contract
NextContract_Skip ==
    /\ i' = i + 2
    /\ IF i + 1 < Len(contracts)
       THEN pc' = "lookup" /\ status' = status
       ELSE Ends("ok")

\* the for loop takes its next contract, or main returns
NextContract ==
    /\ i' = i + 1
    /\ IF i < Len(contracts)
       THEN pc' = "lookup" /\ status' = status
       ELSE Ends("ok")

\* a mutant of Wide: the codes of the market are looked up whenever a market
\* is given
Wide_Always(a) == Truthy(a.market)

\* lines 105-107: a market is given and no contracts are
Wide(a) == Truthy(a.market) /\ ~TruthyList(a.contracts)

\* lines 95-108: the checks of the options and, for a market without
\* contracts, the lookup of the market's codes
Validate ==
    /\ pc = "start"
    /\ UNCHANGED <<args, run, contract, destpath, compression, startdate,
                   df_local, data, files, written, env>>
    /\ IF ~(TruthyList(args.contracts) \/ Truthy(args.market))
       THEN /\ Ends("bad_parameter")
            /\ UNCHANGED <<contracts, i, log>>
       ELSE IF Truthy(args.append) /\ Family(args.fileformat) = "CSV"
       THEN /\ Ends("bad_parameter")
            /\ UNCHANGED <<contracts, i, log>>
       ELSE LET wide == Wide(args)
                found == Lookup(NULL, args.market)
                list == IF wide
                        THEN [k \in 1..Len(found) |-> found[k].code]
                        ELSE args.contracts
            IN  /\ contracts' = list
                /\ log' = IF wide
                          THEN Append(log, LookupCall(NULL, args.market, found # <<>>))
                          ELSE log
                /\ i' = 1
                /\ IF list # <<>>
                   THEN pc' = "lookup" /\ status' = status
                   ELSE Ends("ok")

\* a mutant of OnNotFound: an unknown contract is skipped when skiperr is set
OnNotFound_Skip ==
    IF args.skiperr THEN NextContract ELSE Ends("exit_1") /\ UNCHANGED i

\* lines 114-116: FinamObjectNotFoundError is logged and ends the run
\* with sys.exit(1)
OnNotFound == Ends("exit_1") /\ UNCHANGED i

\* lines 110-118: the lookup of one contract
LookupContract ==
    /\ pc = "lookup"
    /\ LET found == Lookup(contracts[i], args.market)
       IN  /\ log' = Append(log, LookupCall(contracts[i], args.market, found # <<>>))
           /\ IF found = <<>>
              THEN /\ OnNotFound
                   /\ UNCHANGED contract
              ELSE /\ contract' = found[1]
                   /\ pc' = "plan"
                   /\ UNCHANGED <<status, i>>
    /\ UNCHANGED <<args, run, contracts, destpath, compression, startdate,
                   df_local, data, files, written, env>>

\* a mutant of OnReadError: the error skips the contract when skiperr is set
OnReadError_Skip ==
    IF args.skiperr THEN NextContract ELSE Ends("read_error") /\ UNCHANGED i

\* line 141: an exception of pd.read_pickle is caught nowhere and ends the
\* run
OnReadError == Ends("read_error") /\ UNCHANGED i

\* lines 120-148: the destination path and, in append mode, the local
\* dataset and the start date taken from its last row
Plan ==
    /\ pc = "plan"
    /\ LET t == Target(contract.code, Timeframe, args.fileformat, args.ext)
       IN  /\ destpath' = t.path
           /\ compression' = t.compression
           /\ IF ~AppendFlag(args)
              THEN /\ pc' = "download"
                   /\ UNCHANGED <<status, i, startdate, df_local, log>>
              ELSE IF ~Exists(t.path)
              THEN /\ df_local' = EmptyFrame
                   /\ log' = Append(log, ExistsCall(t.path, FALSE))
                   /\ pc' = "download"
                   /\ UNCHANGED <<status, i, startdate>>
              ELSE /\ log' = log \o <<ExistsCall(t.path, TRUE), ReadCall(t.path)>>
                   /\ IF files[t.path].kind # "pickle"
                      THEN \* pd.read_pickle raises
                           /\ OnReadError
                           /\ UNCHANGED <<startdate, df_local>>
                      ELSE IF files[t.path].rows = <<>>
                      THEN \* df_local.iloc[-1] raises IndexError
                           /\ df_local' = files[t.path].rows
                           /\ Ends("index_error")
                           /\ UNCHANGED <<i, startdate>>
                      ELSE LET rows == files[t.path].rows
                               last_existing_date == AsStr(LastRow(rows).DATE)
                           IN  /\ df_local' = rows
                               /\ startdate' = Strptime(last_existing_date)
                               /\ pc' = "download"
                               /\ UNCHANGED <<status, i>>
    /\ UNCHANGED <<args, run, contracts, contract, data, files, written, env>>

\* a mutant of OnExportError: the error is raised whatever skiperr is
OnExportError_Raise == Ends("export_error") /\ UNCHANGED i

\* a mutant of OnExportError: the error is skipped whatever skiperr is
OnExportError_Skip == NextContract

\* lines 159-164: FinamExportError skips the contract (continue) when
\* skiperr is set and is raised otherwise
OnExportError ==
    IF args.skiperr THEN NextContract ELSE Ends("export_error") /\ UNCHANGED i

\* lines 151-164: the export
Download ==
    /\ pc = "download"
    /\ LET ok == contract.id \notin failing
           got == IF ok THEN Export(contract.id, startdate, args.enddate) ELSE <<>>
       IN  /\ log' = Append(log, DownloadCall(contract.id, startdate, args.enddate, ok, got))
           /\ IF ok
              THEN /\ data' = got
                   /\ pc' = "persist"
                   /\ UNCHANGED <<status, i>>
              ELSE /\ OnExportError
                   /\ UNCHANGED data
    /\ UNCHANGED <<args, run, contracts, contract, destpath, compression,
                   startdate, df_local, files, written, env>>

\* the dataset lines 166-177 write: the download, merged with the local
\* dataset for a pickle in append mode
Merged ==
    IF Family(args.fileformat) # "CSV" /\ AppendFlag(args)
    THEN DropDuplicates(Concat(df_local, data))
    ELSE data

\* a mutant of AfterWrite: no pause
AfterWrite_NoPause == NextContract

\* the next position after the write: the pause of lines 180-182 or the
\* next contract
AfterWrite ==
    IF args.delay > 0
    THEN pc' = "sleep" /\ UNCHANGED <<status, i>>
    ELSE NextContract

\* lines 166-178: the write of the dataset to destpath
Persist ==
    /\ pc = "persist"
    /\ data' = Merged
    /\ files' = Written(destpath,
                        IF Family(args.fileformat) = "CSV"
                        THEN Csv(Merged, args.lineterm, compression)
                        ELSE Pickle(Merged, compression))
    /\ log' = Append(log, WriteCall(destpath, Merged))
    /\ written' = written \cup {destpath}
    /\ AfterWrite
    /\ UNCHANGED <<args, run, contracts, contract, destpath, compression,
                   startdate, df_local, env>>

\* lines 168, 177: the write raises after the file was opened for writing
PersistFails ==
    /\ pc = "persist"
    /\ data' = Merged
    /\ files' = Written(destpath, Truncated)
    /\ log' = Append(log, WriteCall(destpath, Merged))
    /\ written' = written \cup {destpath}
    /\ Ends("write_error")
    /\ UNCHANGED <<args, run, contracts, i, contract, destpath, compression,
                   startdate, df_local, env>>

\* lines 180-182: time.sleep(delay)
Sleep ==
    /\ pc = "sleep"
    /\ log' = Append(log, SleepCall(args.delay))
    /\ NextContract
    /\ UNCHANGED <<args, run, contracts, contract, destpath, compression,
                   startdate, df_local, data, files, written, env>>

\* the script is invoked again with the same options: main starts over,
\* the directory and the remote services are as they were left
Invoke ==
    /\ pc = "done"
    /\ run < MaxRuns
    /\ run' = run + 1
    /\ pc' = "start"
    /\ status' = "running"
    /\ contracts' = args.contracts
    /\ i' = 0
    /\ contract' = NULL
    /\ destpath' = NULL
    /\ compression' = NULL
    /\ startdate' = args.startdate
    /\ df_local' = NULL
    /\ data' = NULL
    /\ log' = <<>>
    /\ atStart' = files
    /\ UNCHANGED <<args, files, remote, failing, written>>

----------------------------------------------------------------------------
(* Initial states: the options of the command line, the directory and the  *)
(* remote services an invocation may find                                   *)

\* --contracts lists of at most n codes
ContractLists(codes, n) == SeqsUpTo(codes, n) \ {<<>>}

\* the known codes an invocation with options a works on
CodesOf(a) ==
    IF TruthyList(a.contracts) THEN Range(a.contracts) \cap KnownCodes
    ELSE IF Truthy(a.market) THEN KnownCodes
    ELSE {}

\* the number of contracts an invocation with options a works on
Wanted(a) ==
    IF TruthyList(a.contracts) THEN Len(a.contracts)
    ELSE IF Truthy(a.market) THEN Len(Lookup(NULL, a.market))
    ELSE 0

\* the ids of a set of codes
IdsOf(codes) ==
    {Instruments[k].id : k \in {j \in 1..Len(Instruments) : Instruments[j].code \in codes}}

\* number of rows of all the datasets of a function
RECURSIVE TotalRows(_, _)
TotalRows(f, S) ==
    IF S = {} THEN 0
    ELSE LET x == CHOOSE y \in S : TRUE
         IN  Len(f[x]) + TotalRows(f, S \ {x})

\* the datasets, of at most n rows together, a directory may hold at the
\* paths of the contracts of the options a
Directories(a, n) ==
    LET paths == {Target(c, Timeframe, a.fileformat, a.ext).path : c \in CodesOf(a)}
        rowsOf == UNION {[P -> SeqsUpTo(Rows, n)] : P \in SUBSET paths}
    IN  {e \in rowsOf : TotalRows(e, DOMAIN e) <= n}

\* the file an earlier invocation with the options a left for a dataset
FileOf(a, rows) ==
    LET c == Target("", Timeframe, a.fileformat, a.ext).compression
    IN  IF Family(a.fileformat) = "CSV" THEN Csv(rows, a.lineterm, c) ELSE Pickle(rows, c)

\* the series, of at most n rows together, the export service may hold:
\* none for an instrument the run does not ask for
Remotes(a, n) ==
    LET asked == IdsOf(CodesOf(a))
    IN  {[id \in Ids |-> IF id \in asked THEN q[id] ELSE <<>>] :
            q \in {r \in [asked -> SeqsUpTo(Rows, n)] : TotalRows(r, asked) <= n}}

\* options of runs in append mode on pickles
AppendArgs ==
    [contracts : ContractLists(KnownCodes, MaxSize \div 2), market : {NULL},
     fileformat : {"PKL"}, append : {"y"}, skiperr : BOOLEAN, delay : {1},
     startdate : {Datetime(d) : d \in Days}, enddate : {Datetime(LastDay)},
     ext : {"csv"}, lineterm : {"\r\n"}]

\* options of any kind
OtherArgs ==
    [contracts : {<<>>} \cup ContractLists(KnownCodes \cup {UnknownCode}, MaxSizeAny \div 2),
     market : {NULL, Market}, fileformat : FileFormats, append : {NULL, "y", "n"},
     skiperr : BOOLEAN, delay : {0, 1},
     startdate : {Datetime(FirstDay)}, enddate : {Datetime(LastDay)},
     ext : {"csv"}, lineterm : {"\r\n"}]

\* the first invocation with the options a, from a directory and a remote
\* of size n at most
InitWith(a, n) ==
    /\ args = a
    /\ run = 1
    /\ pc = "start"
    /\ status = "running"
    /\ contracts = a.contracts
    /\ i = 0
    /\ contract = NULL
    /\ destpath = NULL
    /\ compression = NULL
    /\ startdate = a.startdate
    /\ df_local = NULL
    /\ data = NULL
    /\ \E d \in Directories(a, n - 2 * Wanted(a)) :
          /\ files = [p \in DOMAIN d |-> FileOf(a, d[p])]
          /\ remote \in Remotes(a, n - 2 * Wanted(a) - TotalRows(d, DOMAIN d))
    /\ atStart = files
    /\ failing \in SUBSET IdsOf(CodesOf(a))
    /\ written = {}
    /\ log = <<>>

Init ==
    \/ \E a \in AppendArgs : InitWith(a, MaxSize)
    \/ \E a \in OtherArgs : InitWith(a, MaxSizeAny)

Next ==
    \/ Validate
    \/ LookupContract
    \/ Plan
    \/ Download
    \/ Persist
    \/ Sleep
    \/ Invoke

Spec == Init /\ [][Next]_vars

----------------------------------------------------------------------------
(* Vocabulary of the properties *)

\* the calls of the log that are downloads, writes, ...
Calls(op) == {k \in 1..Len(log) : log[k].op = op}

\* the last call of the invocation is a call op
LastCallIs(op) == log # <<>> /\ log[Len(log)].op = op

LastCall == log[Len(log)]

\* the code of an instrument id
CodeOfId(id) == (CHOOSE r \in Range(Instruments) : r.id = id).code

\* the file of an instrument id under the options of the invocation
PathOfId(id) == Target(CodeOfId(id), Timeframe, args.fileformat, args.ext).path

\* a datetime and a <DATE> value name the same day
SameDay(dt, date) == dt[1] * 10000 + dt[2] * 100 + dt[3] = date

\* no two rows of a dataset have the same <DATE>
DatesDistinct(df) == \A a, b \in 1..Len(df) : a # b => df[a].DATE # df[b].DATE

\* no two rows of a dataset are equal in every field
RowsDistinct(df) == \A a, b \in 1..Len(df) : a # b => df[a] # df[b]

\* position of the first occurrence of a row in a dataset
FirstAt(df, r) == CHOOSE k \in 1..Len(df) : df[k] = r /\ \A j \in 1..(k - 1) : df[j] # r

\* in append mode, the download call k follows the plan of its own contract:
\* the call before it is the check of the file or the read of it
PlannedWithoutFile(k) ==
    /\ k > 1
    /\ log[k - 1].op = "exists"
    /\ ~log[k - 1].found

----------------------------------------------------------------------------
(* C1: in an append run, a contract whose file does not exist when it is   *)
(* planned is downloaded from the requested start date, whatever its       *)
(* position in the list, and what is written for it is the download alone. *)
(* The script does not do this: startdate is a local of main that the file *)
(* of an earlier contract overwrites (line 144) and nothing resets.        *)
C1_NoFileMeansRequestedStart ==
    AppendFlag(args) =>
        \A k \in Calls("download") :
            PlannedWithoutFile(k) =>
                /\ log[k].start_date = args.startdate
                /\ (k < Len(log) /\ log[k + 1].op = "write") =>
                       Range(log[k + 1].rows) = Range(log[k].got)

\* C1, for the first contract of the list only: this much the script does
C1_FirstContractOnly ==
    AppendFlag(args) =>
        \A k \in Calls("download") :
            (PlannedWithoutFile(k) /\ \A j \in 1..(k - 1) : log[j].op # "read_pickle") =>
                log[k].start_date = args.startdate

----------------------------------------------------------------------------
(* C2: in an append run, a contract whose file exists is downloaded from   *)
(* the date of the last row of its own file; and every download, in every  *)
(* mode, is asked up to the requested end date.                            *)
C2_StartIsLastLocalDate ==
    /\ \A k \in Calls("download") : log[k].end_date = args.enddate
    /\ (LastCallIs("download") /\ AppendFlag(args) /\ Exists(PathOfId(LastCall.id))) =>
           LET rows == files[PathOfId(LastCall.id)].rows
           IN  /\ rows # <<>>
               /\ SameDay(LastCall.start_date, rows[Len(rows)].DATE)

\* C2's case: a download planned from a file of several dates, whose last
\* date is not the requested one
C2_Witness ==
    /\ LastCallIs("download")
    /\ AppendFlag(args)
    /\ Exists(PathOfId(LastCall.id))
    /\ LET rows == files[PathOfId(LastCall.id)].rows
       IN  /\ Len(rows) >= 2
           /\ rows[1].DATE # rows[Len(rows)].DATE
           /\ ~SameDay(args.startdate, rows[Len(rows)].DATE)

----------------------------------------------------------------------------
(* C3: every dataset an append run writes has no two rows with the same    *)
(* date.  The script removes rows that are equal in every field, so two    *)
(* rows of one date that differ elsewhere both stay.                       *)
C3_NoTwoRowsOfOneDate ==
    AppendFlag(args) => \A k \in Calls("write") : DatesDistinct(log[k].rows)

\* C3 as amended: every dataset an append run writes has no two rows that
\* are equal in every field
C3_NoTwoEqualRows ==
    AppendFlag(args) => \A k \in Calls("write") : RowsDistinct(log[k].rows)

\* C3's case: the row downloaded for the last local date differs from the
\* local row of that date in another field, and the merge is written
C3_Witness ==
    /\ AppendFlag(args)
    /\ LastCallIs("write")
    /\ \E a \in 1..Len(df_local) : \E b \in 1..Len(log[Len(log) - 1].got) :
          /\ df_local[a].DATE = log[Len(log) - 1].got[b].DATE
          /\ df_local[a].CLOSE # log[Len(log) - 1].got[b].CLOSE
    /\ ~DatesDistinct(LastCall.rows)

----------------------------------------------------------------------------
(* C4: in append mode on a pickle, what is written is the local rows       *)
(* followed by the downloaded rows, without the later copies of a row: the *)
(* rows are those of both, none twice, in the order of their first         *)
(* occurrences, and at most |local| + |downloaded| many.                   *)
C4_MergeKeepsFirstOccurrences ==
    (LastCallIs("write") /\ AppendFlag(args) /\ Family(args.fileformat) = "PKL") =>
        LET both == df_local \o log[Len(log) - 1].got
            out == LastCall.rows
        IN  /\ log[Len(log) - 1].op = "download"
            /\ files[LastCall.path] = Pickle(out, compression)
            /\ Range(out) = Range(both)
            /\ RowsDistinct(out)
            /\ \A a, b \in 1..Len(out) :
                  a < b => FirstAt(both, out[a]) < FirstAt(both, out[b])
            /\ Len(out) <= Len(df_local) + Len(log[Len(log) - 1].got)

\* C4's case: a merge in which a downloaded row repeats a local row that is
\* not the last of the rows kept
C4_Witness ==
    /\ LastCallIs("write")
    /\ AppendFlag(args)
    /\ Family(args.fileformat) = "PKL"
    /\ Len(LastCall.rows) >= 2
    /\ Len(LastCall.rows) < Len(df_local) + Len(log[Len(log) - 1].got)
    /\ \E b \in 1..Len(log[Len(log) - 1].got) : log[Len(log) - 1].got[b] = LastCall.rows[1]

----------------------------------------------------------------------------
(* C5: with a remote that answers a request as it answered it before, a    *)
(* second append run leaves every file as the first run left it.           *)
(* The script does not do this for a local file that holds a row twice:    *)
(* the first run drops the later copy, the last row of the file becomes an *)
(* earlier date, and the second run downloads from that date and adds the  *)
(* rows the first run never asked for.                                     *)
C5_SecondAppendRunChangesNothing ==
    (AppendFlag(args) /\ run >= 2 /\ pc = "done") => files = atStart

----------------------------------------------------------------------------
(* C6: the write of an append cycle leaves in the file the rows of the     *)
(* file as it was together with the rows downloaded, and no step of an     *)
(* append run (a skipped export included) takes a row out of a file.       *)
C6_UnionAndNoRowLost ==
    [][AppendFlag(args) =>
          /\ \A p \in DOMAIN files :
                /\ p \in DOMAIN files'
                /\ Range(files[p].rows) \subseteq Range(files'[p].rows)
          /\ (pc = "persist" /\ pc' # "persist") =>
                Range(files'[destpath].rows) =
                    (IF Exists(destpath) THEN Range(files[destpath].rows) ELSE {})
                        \cup Range(data)]_vars

\* C6's case: a written merge with a row only the local file had and a row
\* only the download had, in a run after a first one
C6_Witness ==
    /\ AppendFlag(args)
    /\ LastCallIs("write")
    /\ \E r \in Range(df_local) : r \notin Range(log[Len(log) - 1].got)
    /\ \E r \in Range(log[Len(log) - 1].got) : r \notin Range(df_local)
    /\ Range(files[destpath].rows) = Range(df_local) \cup Range(log[Len(log) - 1].got)

----------------------------------------------------------------------------
(* Error handling *)

\* number of lookups of single contracts among the first k calls
LookupsUpTo(k) == Cardinality({j \in 1..k : log[j].op = "lookup" /\ log[j].code # NULL})

\* the file at path p is as it was when the invocation started
Untouched(p) ==
    /\ p \in DOMAIN files <=> p \in DOMAIN atStart
    /\ p \in DOMAIN files => files[p] = atStart[p]

\* every file holds what the last write to it wrote, or what the invocation
\* found when no write went to it
FilesAreLastWrites ==
    \A p \in DOMAIN files \cup DOMAIN atStart :
        LET ws == {k \in Calls("write") : log[k].path = p}
        IN  IF ws = {} THEN Untouched(p)
            ELSE /\ p \in DOMAIN files
                 /\ files[p].rows = log[CHOOSE k \in ws : \A j \in ws : j <= k].rows

(* C7: with skiperr set, a failed export writes and changes no file of its *)
(* instrument, the next call is the lookup of the next contract of the     *)
(* list, and a run in which nothing else goes wrong ends well.             *)
C7_FailedExportIsSkipped ==
    args.skiperr =>
        /\ \A k \in Calls("download") :
              ~log[k].ok =>
                  /\ Untouched(PathOfId(log[k].id))
                  /\ k < Len(log) =>
                        /\ log[k + 1].op = "lookup"
                        /\ log[k + 1].code = contracts[LookupsUpTo(k) + 1]
                  /\ k = Len(log) =>
                        \/ pc = "lookup" /\ i = LookupsUpTo(k) + 1
                        \/ pc = "done" /\ status = "ok" /\ LookupsUpTo(k) = Len(contracts)
        /\ status # "export_error"
        /\ (pc = "done" /\ status # "ok") =>
              \/ status = "bad_parameter" /\ log = <<>>
              \/ status = "exit_1" /\ LastCallIs("lookup")
              \/ status \in {"read_error", "index_error"} /\ LastCallIs("read_pickle")

\* C7's case: a run that ended well although the export of a contract with
\* a local file failed, and that went on to write the file of a later one
C7_Witness ==
    /\ args.skiperr
    /\ pc = "done"
    /\ status = "ok"
    /\ \E k \in Calls("download") :
          /\ ~log[k].ok
          /\ PathOfId(log[k].id) \in DOMAIN files
          /\ \E j \in Calls("write") : j > k

(* C8: with skiperr unset, a failed export is the last call of the run,    *)
(* which ends with the error: nothing is written for the instrument, and   *)
(* the files written for earlier contracts hold what was written.          *)
C8_FailedExportEndsRun ==
    ~args.skiperr =>
        \A k \in Calls("download") :
            ~log[k].ok =>
                /\ k = Len(log)
                /\ pc = "done"
                /\ status = "export_error"
                /\ Untouched(PathOfId(log[k].id))
                /\ FilesAreLastWrites

\* C8's case: the export fails after an earlier contract was written and
\* before a later contract of the list was looked up
C8_Witness ==
    /\ ~args.skiperr
    /\ status = "export_error"
    /\ Calls("write") # {}
    /\ LookupsUpTo(Len(log)) < Len(contracts)

(* C9: a lookup that finds nothing is the last call of the run, which ends *)
(* with exit status 1, whatever skiperr is.                                *)
C9_UnknownContractEndsRun ==
    \A k \in Calls("lookup") :
        ~log[k].found =>
            /\ k = Len(log)
            /\ pc = "done"
            /\ status = "exit_1"

\* C9's case: with skiperr set, an unknown code ends the run before a later
\* contract of the list
C9_Witness ==
    /\ args.skiperr
    /\ status = "exit_1"
    /\ LastCallIs("lookup")
    /\ ~LastCall.found
    /\ LookupsUpTo(Len(log)) < Len(contracts)

----------------------------------------------------------------------------
(* Invocations on a file system whose writes may fail part-way *)

NextFaults ==
    \/ Next
    \/ PersistFails

SpecFaults == Init /\ [][NextFaults]_vars

(* C10: a write that fails part-way leaves at the path the content the     *)
(* file had.  The script writes in place (lines 168, 177): the file is     *)
(* opened for writing at its own path, and a failure leaves it truncated.  *)
C10_FailedWriteKeepsFile ==
    [][(pc = "persist" /\ status' = "write_error" /\ Exists(destpath)) =>
           files'[destpath] = files[destpath]]_vars

----------------------------------------------------------------------------
(* Validation of the options *)

\* the formats of the CSV family
CsvFormats == {"CSV", "CSVGZ"}

\* the invocation made no call and left the directory as it found it
NothingDone == log = <<>> /\ files = atStart

(* C11: an invocation with neither --contracts nor --market ends with      *)
(* BadParameter, and has made no lookup, no export, no read and no write.  *)
C11_NothingAskedIsRejected ==
    (args.contracts = <<>> /\ args.market = NULL /\ pc # "start") =>
        /\ pc = "done"
        /\ status = "bad_parameter"
        /\ NothingDone

\* C11's case: the second invocation without contracts and market is
\* rejected as the first was
C11_Witness ==
    /\ args.contracts = <<>>
    /\ args.market = NULL
    /\ run = 2
    /\ status = "bad_parameter"

(* C12: an invocation with a format of the CSV family and --append y ends  *)
(* with BadParameter, and has made no lookup, no export, no read and no    *)
(* write.                                                                  *)
C12_CsvAppendIsRejected ==
    (args.fileformat \in CsvFormats /\ args.append = "y" /\ pc # "start") =>
        /\ pc = "done"
        /\ status = "bad_parameter"
        /\ NothingDone

\* C12's case: compressed CSV with --append y and a contract whose file is
\* there is rejected, the file neither read nor written
C12_Witness ==
    /\ args.fileformat = "CSVGZ"
    /\ args.append = "y"
    /\ args.contracts # <<>>
    /\ files # <<>>
    /\ status = "bad_parameter"

(* C19: an invocation with a format of the CSV family and --append n, and  *)
(* with contracts or a market, is not rejected.  The script rejects it:    *)
(* line 101 tests the option's string, and 'n' is a true value.            *)
C19_CsvWithAppendOffIsAccepted ==
    (/\ args.fileformat \in CsvFormats
     /\ args.append = "n"
     /\ (args.contracts # <<>> \/ args.market # NULL)) =>
        status # "bad_parameter"

----------------------------------------------------------------------------
(* The cycles of the contracts *)

\* the contract in whose cycle the call k is made: the one of the last
\* lookup of a single contract up to k
Owner(k) == contracts[LookupsUpTo(k)]

\* the file of a code under the options of the invocation
PathOfCode(code) == Target(code, Timeframe, args.fileformat, args.ext).path

\* what a completed write of rows leaves under the options of the invocation
Stored(rows) ==
    LET c == Target("", Timeframe, args.fileformat, args.ext).compression
    IN  IF args.fileformat \in CsvFormats
        THEN Csv(rows, args.lineterm, c)
        ELSE Pickle(rows, c)

\* the last write of the invocation to the path p
LastWriteTo(p) ==
    CHOOSE k \in Calls("write") :
        /\ log[k].path = p
        /\ \A j \in Calls("write") : log[j].path = p => j <= k

\* an invocation without append: no file is looked for or read, the
\* contracts of the list are looked up once each in their order, every
\* download follows the lookup of its contract and starts at the requested
\* date, every write stores the rows of the download before it as they came,
\* and a run that ends well has looked up and downloaded every contract
ReplacesWithDownloads ==
    /\ Calls("exists") = {}
    /\ Calls("read_pickle") = {}
    /\ \A k \in Calls("lookup") :
          log[k].code # NULL =>
              /\ LookupsUpTo(k) <= Len(contracts)
              /\ log[k].code = Owner(k)
    /\ \A k \in Calls("download") :
          /\ log[k].start_date = args.startdate
          /\ k > 1
          /\ log[k - 1].op = "lookup"
          /\ log[k - 1].found
          /\ log[k - 1].code = CodeOfId(log[k].id)
    /\ \A k \in Calls("write") :
          /\ k > 1
          /\ log[k - 1].op = "download"
          /\ log[k - 1].ok
          /\ log[k].rows = log[k - 1].got
          /\ log[k].path = PathOfId(log[k - 1].id)
    /\ \A p \in DOMAIN files \cup DOMAIN atStart :
          IF \E k \in Calls("write") : log[k].path = p
          THEN p \in DOMAIN files /\ files[p] = Stored(log[LastWriteTo(p)].rows)
          ELSE Untouched(p)
    /\ (pc = "done" /\ status = "ok") =>
          /\ LookupsUpTo(Len(log)) = Len(contracts)
          /\ Cardinality(Calls("download")) = Len(contracts)

(* C13: an invocation without append (--append omitted or n), of any       *)
(* format, is accepted, looks up each contract once, downloads it once     *)
(* from the requested start date and replaces its file by the rows         *)
(* downloaded, in their order, without reading or merging the file.        *)
(* The script rejects the CSV formats with --append n (see C19).           *)
C13_AppendOffDownloadsAndReplaces ==
    (/\ args.append # "y"
     /\ (args.contracts # <<>> \/ args.market # NULL)
     /\ pc # "start") =>
        /\ status # "bad_parameter"
        /\ ReplacesWithDownloads

\* C13, for the invocations line 101 lets through: this the script does
C13_WhereAccepted ==
    (/\ args.append # "y"
     /\ ~(args.append = "n" /\ args.fileformat \in CsvFormats)
     /\ (args.contracts # <<>> \/ args.market # NULL)
     /\ pc # "start") =>
        /\ status # "bad_parameter"
        /\ ReplacesWithDownloads

\* an invocation without append replaced a file that held other rows
C13_Replaced ==
    /\ args.append # "y"
    /\ LastCallIs("write")
    /\ LastCall.path \in DOMAIN atStart
    /\ atStart[LastCall.path].rows # <<>>
    /\ Range(atStart[LastCall.path].rows) \cap Range(LastCall.rows) = {}
    /\ LastCall.rows # <<>>

\* the call after the call k is the one main makes next
NextCallFollows(k) ==
    LET c == log[k]
        n == log[k + 1]
    IN  CASE c.op = "lookup" /\ c.code = NULL -> n.op = "lookup" /\ n.code # NULL
          [] c.op = "lookup" /\ c.code # NULL ->
                 /\ c.found
                 /\ n.op = IF AppendFlag(args) THEN "exists" ELSE "download"
          [] c.op = "exists" -> n.op = IF c.found THEN "read_pickle" ELSE "download"
          [] c.op = "read_pickle" -> n.op = "download"
          [] c.op = "download" -> n.op = IF c.ok THEN "write" ELSE "lookup"
          [] c.op = "write" -> n.op = IF args.delay > 0 THEN "sleep" ELSE "lookup"
          [] c.op = "sleep" -> n.op = "lookup"

\* the call k is made for the contract in whose cycle it falls
CallOfOwner(k) ==
    LET c == log[k]
    IN  CASE c.op = "lookup" -> IF c.code = NULL THEN k = 1 ELSE c.code = Owner(k)
          [] c.op \in {"exists", "read_pickle", "write"} -> c.path = PathOfCode(Owner(k))
          [] c.op = "download" -> CodeOfId(c.id) = Owner(k)
          [] c.op = "sleep" -> TRUE

(* C14: the contracts are handled one at a time in the order of the list:  *)
(* the calls of an invocation are the cycles of the contracts one after    *)
(* another, each cycle the lookup, then (append mode) the check and read   *)
(* of the file, then the download, then the write, then the pause; the     *)
(* n-th lookup is that of the n-th contract, and every call between it and *)
(* the next lookup is made for that contract.                              *)
C14_OneContractAtATime ==
    /\ \A k \in 1..(Len(log) - 1) : NextCallFollows(k)
    /\ \A k \in 1..Len(log) :
          /\ LookupsUpTo(k) <= Len(contracts)
          /\ CallOfOwner(k)

\* C14's case: a run that ended well after the cycles of two different
\* contracts, each with its write and its pause
C14_Witness ==
    /\ pc = "done"
    /\ status = "ok"
    /\ Len(contracts) >= 2
    /\ contracts[1] # contracts[2]
    /\ Cardinality({log[k].path : k \in Calls("write")}) >= 2
    /\ Cardinality(Calls("sleep")) >= 2

(* C15: with a delay above zero every completed write is followed by one   *)
(* pause of the delay, before the next lookup; with delay zero there is no *)
(* pause; a skipped contract (failed export with skiperr) is never         *)
(* followed by a pause, the last contract of the list included.            *)
C15_PauseAfterEachWrite ==
    /\ \A k \in Calls("sleep") :
          /\ args.delay > 0
          /\ log[k].seconds = args.delay
          /\ k > 1
          /\ log[k - 1].op = "write"
    /\ \A k \in Calls("write") :
          args.delay > 0 =>
              /\ k < Len(log) => log[k + 1].op = "sleep"
              /\ k = Len(log) => pc = "sleep"
    /\ \A k \in Calls("download") :
          ~log[k].ok =>
              /\ k < Len(log) => log[k + 1].op # "sleep"
              /\ k = Len(log) => pc # "sleep"

\* C15's case: a run with a delay that paused after the write of one
\* contract, skipped the last one and ended without a pause
C15_Witness ==
    /\ args.delay > 0
    /\ args.skiperr
    /\ pc = "done"
    /\ status = "ok"
    /\ LastCallIs("download")
    /\ ~LastCall.ok
    /\ \E k \in Calls("write") : log[k + 1].op = "sleep" /\ log[k + 2].op = "lookup"

----------------------------------------------------------------------------
(* Destination paths *)

\* extensions --ext may give
Exts == {"csv", "txt"}

\* the suffix and the compression of a format
Suffix(fileformat, ext) ==
    CASE fileformat = "CSV"   -> "." \o ext
      [] fileformat = "CSVGZ" -> ".csv.gz"
      [] fileformat = "PKL"   -> ".pkl"
      [] fileformat = "PKLXZ" -> ".pkl.xz"

CompressionOf(fileformat) ==
    CASE fileformat = "CSV"   -> NULL
      [] fileformat = "CSVGZ" -> "gzip"
      [] fileformat = "PKL"   -> NULL
      [] fileformat = "PKLXZ" -> "xz"

(* C16: the path of a contract's file is the destination directory joined  *)
(* with '{code}-{timeframe}' and the suffix of the format, its compression *)
(* the one of the format; the extension changes the path of the plain CSV  *)
(* only (with another extension main would work with the same path for    *)
(* every other format, and with another path for the plain CSV); and in    *)
(* every iteration of every run the path and compression main works with,  *)
(* and the path of every file call, are those of the resolved code.        *)
C16_PathIsFunctionOfCodeAndFormat ==
    /\ pc \in {"download", "persist", "sleep"} =>
          /\ destpath = Destdir \o "/" \o contract.code \o "-" \o Timeframe
                            \o Suffix(args.fileformat, args.ext)
          /\ compression = CompressionOf(args.fileformat)
          /\ \A e \in Exts :
                LET t == Target(contract.code, Timeframe, args.fileformat, e)
                IN  /\ t.path = Destdir \o "/" \o contract.code \o "-" \o Timeframe
                                    \o Suffix(args.fileformat, e)
                    /\ t.compression = CompressionOf(args.fileformat)
                    /\ t.path = destpath <=> (args.fileformat # "CSV" \/ e = args.ext)
    /\ \A k \in 1..Len(log) :
          log[k].op \in {"exists", "read_pickle", "write"} =>
              log[k].path = Destdir \o "/" \o Owner(k) \o "-" \o Timeframe
                                \o Suffix(args.fileformat, args.ext)

\* C16's case: a later run writes the compressed pickle of a contract at the
\* path where an earlier run left it
C16_Witness ==
    /\ args.fileformat = "PKLXZ"
    /\ run >= 2
    /\ LastCallIs("write")
    /\ LastCall.path \in written
    /\ LastCall.path \in DOMAIN atStart
    /\ compression = "xz"

----------------------------------------------------------------------------
(* Contracts of a market *)

(* C18: an invocation with a market and no contracts first looks up the    *)
(* market alone, then handles the codes of the answer in its order, each   *)
(* with a lookup of the code and the market; an invocation with contracts  *)
(* makes no lookup of a market alone, and gives the market, if any, to     *)
(* every lookup.                                                           *)
C18_MarketGivesTheList ==
    pc # "start" /\ status # "bad_parameter" =>
        /\ \A k \in Calls("lookup") :
              /\ log[k].market = args.market
              /\ log[k].code = NULL <=> (k = 1 /\ args.contracts = <<>>)
              /\ log[k].code # NULL => log[k].code = Owner(k)
        /\ IF args.contracts = <<>>
           THEN /\ log # <<>>
                /\ log[1] = LookupCall(NULL, args.market, TRUE)
                /\ contracts = [k \in 1..Len(Lookup(NULL, args.market)) |->
                                    Lookup(NULL, args.market)[k].code]
           ELSE contracts = args.contracts

\* C18's case: a run for a market alone that ended well after the lookups of
\* the two codes of the market, in the order of the service
C18_Witness ==
    /\ args.contracts = <<>>
    /\ args.market = Market
    /\ pc = "done"
    /\ status = "ok"
    /\ Len(contracts) = 2
    /\ \E j, k \in Calls("lookup") :
          /\ 1 < j /\ j < k
          /\ log[j].code = Instruments[1].code
          /\ log[k].code = Instruments[2].code
          /\ log[j].market = Market

----------------------------------------------------------------------------
(* Local files an append run cannot use *)

\* the read call k finds a file that is not a pickle: the file was so when
\* the invocation started, and the invocation has not written it before
Unreadable(k) ==
    /\ log[k].path \in DOMAIN atStart
    /\ atStart[log[k].path].kind # "pickle"
    /\ \A j \in 1..(k - 1) : ~(log[j].op = "write" /\ log[j].path = log[k].path)

(* C17: a local file that pd.read_pickle cannot read ends the run at the   *)
(* read, whatever skiperr is: no download is asked for the contract, the   *)
(* file stays as it was, and no later contract is looked up.               *)
C17_UnreadableFileEndsRun ==
    \A k \in Calls("read_pickle") :
        Unreadable(k) =>
            /\ k = Len(log)
            /\ pc = "done"
            /\ status = "read_error"
            /\ files = atStart

\* C17's case: with skiperr set, the file a failed write of the run before
\* left ends the run before the later contracts of the list
C17_Witness ==
    /\ args.skiperr
    /\ run >= 2
    /\ status = "read_error"
    /\ LastCallIs("read_pickle")
    /\ files[LastCall.path] = Truncated
    /\ LookupsUpTo(Len(log)) < Len(contracts)

(* C20: an append run never fails at the last row (line 142) of a local    *)
(* file that it found when it started and that a run before it wrote.      *)
(* The script does: a first run whose download is empty writes a pickle    *)
(* without rows, and the next run fails on it with IndexError.             *)
C20_WrittenFilesServeAppend ==
    (/\ AppendFlag(args)
     /\ run >= 2
     /\ status = "index_error"
     /\ LastCall.path \in DOMAIN atStart) =>
        LastCall.path \notin written

====
